---- MODULE Spec2Model ----
(***************************************************************************)
(* A model of the Instat event parser (src/instat_parser.py): one          *)
(* InstatEventParser object, the XML file its path names, and the calls a  *)
(* client makes on it (parse_xml, extract_events, get_summary_stats).      *)
(*                                                                         *)
(* Representation.                                                         *)
(*   - A text is a sequence of one-character strings.  ElementTree gives   *)
(*     an element without character data the text None and never the empty *)
(*     string, so the empty sequence <<>> stands for Python's None.        *)
(*   - A label's group text is only ever used as a dictionary key, so it   *)
(*     is a TLA+ string; "" stands for None in the same way.               *)
(*   - An XML element is known by what find()/findall() return on it: an   *)
(*     instance is [children, labels], children a function from the names  *)
(*     of the scalar children that are present to their texts, labels the  *)
(*     sequence of its label children (each a function from the present    *)
(*     ones of "group", "text" to their texts).                            *)
(*   - A Python dict is a function; an event is a function whose domain is *)
(*     the set of keys the dict holds.                                     *)
(*   - Times are floats in the code; the model keeps them in tenths of a   *)
(*     second (fixed point), so "5.5" is a valid float and no valid int.   *)
(*   - ret is the outcome of the call made last: the value returned or the *)
(*     exception that left the method.                                     *)
(*   - df is the table of a PlayerReport object (src/player_report.py),    *)
(*     None while there is no such object.                                 *)
(***************************************************************************)
EXTENDS Integers, Sequences, FiniteSets, TLC

VARIABLES file, root, events, ret, df

vars == <<file, root, events, ret, df>>

----------------------------------------------------------------------------
(* Bounds *)

\* the largest number of instance elements in a container
MaxInst == 2

----------------------------------------------------------------------------
(* Python values *)

EmptyDict == [k \in {} |-> k]

PyNone == [kind |-> "None"]

\* float('inf'): larger than every time of the model
Inf == 1000000

Returned(op, v) == [op |-> op, kind |-> "return", val |-> v]

ReturnedNone(op) == [op |-> op, kind |-> "return_none"]

Raised(op, exc) == [op |-> op, kind |-> "raise", exc |-> exc]

\* the same for a call with an argument
ReturnedFrom(op, arg, v) == [op |-> op, arg |-> arg, kind |-> "return", val |-> v]

RaisedFrom(op, arg, exc) == [op |-> op, arg |-> arg, kind |-> "raise", exc |-> exc]

----------------------------------------------------------------------------
(* Texts and the numeric conversions int() and float() *)

Digits == {"0", "1", "2", "3", "4", "5", "6", "7", "8", "9"}

DigitVal(c) ==
  CASE c = "0" -> 0 [] c = "1" -> 1 [] c = "2" -> 2 [] c = "3" -> 3
    [] c = "4" -> 4 [] c = "5" -> 5 [] c = "6" -> 6 [] c = "7" -> 7
    [] c = "8" -> 8 [] c = "9" -> 9

IsDigits(t) == Len(t) > 0 /\ \A i \in 1..Len(t) : t[i] \in Digits

RECURSIVE DecimalVal(_)
DecimalVal(t) ==
  IF t = <<>> THEN 0
  ELSE 10 * DecimalVal(SubSeq(t, 1, Len(t) - 1)) + DigitVal(t[Len(t)])

\* int(text): "ok", or the exception int() raises
IntError(t) ==
  IF t = <<>> THEN "TypeError"
  ELSE IF IsDigits(t) THEN "ok"
  ELSE "ValueError"

IntOf(t) == DecimalVal(t)

\* the position of the decimal point of t, 0 when it has none
PointAt(t) ==
  IF \E i \in 1..Len(t) : t[i] = "."
  THEN CHOOSE i \in 1..Len(t) : t[i] = "." /\ \A j \in 1..(i - 1) : t[j] # "."
  ELSE 0

\* digits, or digits "." one digit
IsFloatText(t) ==
  \/ IsDigits(t)
  \/ /\ PointAt(t) = Len(t) - 1
     /\ IsDigits(SubSeq(t, 1, PointAt(t) - 1))
     /\ t[Len(t)] \in Digits

\* float(text): "ok", or the exception float() raises
FloatError(t) ==
  IF t = <<>> THEN "TypeError"
  ELSE IF IsFloatText(t) THEN "ok"
  ELSE "ValueError"

\* float(text) in tenths
FloatOf(t) ==
  IF IsDigits(t) THEN 10 * DecimalVal(t)
  ELSE 10 * DecimalVal(SubSeq(t, 1, PointAt(t) - 1)) + DigitVal(t[Len(t)])

Min2(a, b) == IF b < a THEN b ELSE a

Max2(a, b) == IF b > a THEN b ELSE a

----------------------------------------------------------------------------
(* The input documents *)

Goals == <<"G", "o", "a", "l", "s">>
Passes == <<"P", "a", "s", "s", "e", "s">>
TeamA == <<"A">>
TeamB == <<"B">>
\* a team whose name holds the names of the other two
TeamAB == <<"A", "B">>
NoneText == <<"N", "o", "n", "e">>
Half1 == <<"1">>
Half2 == <<"2">>
Abc == <<"a", "b", "c">>

Label(g, t) == [group |-> g, text |-> t]

Instance(c, ls) == [children |-> c, labels |-> ls]

\* the instance elements a document is made of
Instances ==
  { \* complete instances
    Instance([ID |-> <<"1">>, start |-> <<"1", "0">>, end |-> <<"2", "0">>,
              code |-> <<"7", ".", "A", "l", "(", "9", ")", " ", "-", " ", "G">>],
             <<Label("Action", Goals), Label("Team", TeamA), Label("Half", Half1)>>),
    Instance([ID |-> <<"2">>, start |-> <<"3", "0">>, end |-> <<"4", "5">>],
             <<Label("Action", Passes), Label("Team", TeamAB), Label("Half", Half1)>>),
    Instance([ID |-> <<"3">>, start |-> <<"5", ".", "5">>, end |-> <<"8">>],
             <<Label("Action", Goals), Label("Team", TeamB), Label("Half", Half2)>>),
    \* an instance with no children at all
    Instance(EmptyDict, <<>>),
    \* a start and no end
    Instance([start |-> <<"3">>],
             <<Label("Action", Goals), Label("Team", TeamB)>>),
    \* an end and no start; the team is the literal "None"
    Instance([end |-> <<"9", "0">>],
             <<Label("Action", Passes), Label("Team", NoneText),
               Label("Half", Half2)>>),
    \* non-numeric text in ID, in start, in end
    Instance([ID |-> Abc, start |-> <<"1", "0">>, end |-> <<"2", "0">>],
             <<Label("Team", TeamA)>>),
    Instance([ID |-> <<"4">>, start |-> Abc, end |-> <<"2", "0">>], <<>>),
    Instance([ID |-> <<"5">>, start |-> <<"1">>, end |-> Abc], <<>>),
    \* <ID/>: an ID child without text
    Instance([ID |-> <<>>, start |-> <<"2">>, end |-> <<"4">>], <<>>),
    \* labels whose text element is empty
    Instance([ID |-> <<"6">>],
             <<Label("Team", <<>>), Label("Action", <<>>), Label("Half", Half1)>>),
    \* a label, then a label without text, a label without group, a group
    \* given twice
    Instance([ID |-> <<"7">>, start |-> <<"7">>, end |-> <<"7">>],
             <<Label("Half", Half1), [group |-> "Action"], [text |-> Goals],
               Label("Team", TeamA), Label("Team", TeamB)>>)
  }

RECURSIVE SeqsUpTo(_, _)
SeqsUpTo(S, n) ==
  IF n = 0 THEN {<<>>}
  ELSE LET shorter == SeqsUpTo(S, n - 1)
       IN shorter \cup {Append(s, x) : s \in shorter, x \in S}

\* The root element of a well-formed document, by what extract_events asks
\* of it: whether it has children (bool(root)), whether a descendant is
\* named ALL_INSTANCES (root.find), and that element's instance children.
Roots ==
  {[children |-> FALSE, container |-> FALSE, instances |-> <<>>],
   [children |-> TRUE, container |-> FALSE, instances |-> <<>>]}
  \cup {[children |-> TRUE, container |-> TRUE, instances |-> is] :
          is \in SeqsUpTo(Instances, MaxInst)}

\* what the path names when parse_xml is called
Files ==
  {[kind |-> "missing"], [kind |-> "unreadable"], [kind |-> "malformed"]}
  \cup {[kind |-> "xml", root |-> r] : r \in Roots}

----------------------------------------------------------------------------
(* _parse_instance *)

\* the loop with a label child that lacks its group or its text emptying
\* the dict
RECURSIVE LabelsOfSkipClears(_, _)
LabelsOfSkipClears(ls, n) ==
  IF n = 0 THEN EmptyDict
  ELSE LET prev == LabelsOfSkipClears(ls, n - 1)
           label == ls[n]
       IN IF "group" \in DOMAIN label /\ "text" \in DOMAIN label
          THEN [g \in DOMAIN prev \cup {label.group} |->
                  IF g = label.group THEN label.text ELSE prev[g]]
          ELSE EmptyDict

\* the loop with a group keeping the text it got first
RECURSIVE LabelsOfFirstWins(_, _)
LabelsOfFirstWins(ls, n) ==
  IF n = 0 THEN EmptyDict
  ELSE LET prev == LabelsOfFirstWins(ls, n - 1)
           label == ls[n]
       IN IF "group" \in DOMAIN label /\ "text" \in DOMAIN label
          THEN [g \in DOMAIN prev \cup {label.group} |->
                  IF g \in DOMAIN prev THEN prev[g] ELSE label.text]
          ELSE prev

\* the labels dict after the loop over the first n label children
RECURSIVE LabelsOf(_, _)
LabelsOf(ls, n) ==
  IF n = 0 THEN EmptyDict
  ELSE LET prev == LabelsOf(ls, n - 1)
           label == ls[n]
       IN IF "group" \in DOMAIN label /\ "text" \in DOMAIN label
          THEN [g \in DOMAIN prev \cup {label.group} |->
                  IF g = label.group THEN label.text ELSE prev[g]]
          ELSE prev

\* "ok", or the exception that leaves _parse_instance: the conversions run
\* in the order ID, start, end
ParseError(instance) ==
  LET c == instance.children
      idErr == IF "ID" \in DOMAIN c THEN IntError(c.ID) ELSE "ok"
      startErr == IF "start" \in DOMAIN c THEN FloatError(c.start) ELSE "ok"
      endErr == IF "end" \in DOMAIN c THEN FloatError(c.end) ELSE "ok"
  IN IF idErr # "ok" THEN idErr
     ELSE IF startErr # "ok" THEN startErr
     ELSE endErr

\* _parse_instance giving an instance without ID the id 0
ParseInstanceDefaultsId(instance) ==
  LET c == instance.children
  IN ("id" :> (IF "ID" \in DOMAIN c THEN IntOf(c.ID) ELSE 0))
     @@ (IF "start" \in DOMAIN c THEN "start_time" :> FloatOf(c.start) ELSE EmptyDict)
     @@ (IF "end" \in DOMAIN c THEN "end_time" :> FloatOf(c.end) ELSE EmptyDict)
     @@ (IF "code" \in DOMAIN c THEN "code" :> c.code ELSE EmptyDict)
     @@ ("labels" :> LabelsOf(instance.labels, Len(instance.labels)))

\* the event _parse_instance returns when no conversion raises
ParseInstance(instance) ==
  LET c == instance.children
  IN (IF "ID" \in DOMAIN c THEN "id" :> IntOf(c.ID) ELSE EmptyDict)
     @@ (IF "start" \in DOMAIN c THEN "start_time" :> FloatOf(c.start) ELSE EmptyDict)
     @@ (IF "end" \in DOMAIN c THEN "end_time" :> FloatOf(c.end) ELSE EmptyDict)
     @@ (IF "code" \in DOMAIN c THEN "code" :> c.code ELSE EmptyDict)
     @@ ("labels" :> LabelsOf(instance.labels, Len(instance.labels)))

----------------------------------------------------------------------------
(* The parser object *)

Init ==
  /\ file \in Files
  /\ root = PyNone
  /\ events = <<>>
  /\ ret = [op |-> "__init__", kind |-> "return_none"]
  /\ df = PyNone

\* parse_xml without the except clause for FileNotFoundError
parse_xml_missing_uncaught ==
  /\ \/ /\ file.kind = "xml"
        /\ root' = file.root
        /\ ret' = Returned("parse_xml", TRUE)
     \/ /\ file.kind = "malformed"
        /\ root' = root
        /\ ret' = Returned("parse_xml", FALSE)
     \/ /\ file.kind = "missing"
        /\ root' = root
        /\ ret' = Raised("parse_xml", "FileNotFoundError")
     \/ /\ file.kind = "unreadable"
        /\ root' = root
        /\ ret' = Raised("parse_xml", "PermissionError")
  /\ UNCHANGED <<file, events, df>>

\* parse_xml: ET.parse raises ParseError on malformed markup and
\* FileNotFoundError on a missing file, both caught; any other OSError
\* (PermissionError on an unreadable file) leaves the method.
parse_xml ==
  /\ \/ /\ file.kind = "xml"
        /\ root' = file.root
        /\ ret' = Returned("parse_xml", TRUE)
     \/ /\ file.kind \in {"malformed", "missing"}
        /\ root' = root
        /\ ret' = Returned("parse_xml", FALSE)
     \/ /\ file.kind = "unreadable"
        /\ root' = root
        /\ ret' = Raised("parse_xml", "PermissionError")
  /\ UNCHANGED <<file, events, df>>

\* ExtractLoop with "if event:" testing the labels: an instance without
\* labels is dropped
RECURSIVE ExtractLoopDropsUnlabelled(_, _, _)
ExtractLoopDropsUnlabelled(instances, i, acc) ==
  IF i > Len(instances) THEN [events |-> acc, exc |-> "ok"]
  ELSE IF ParseError(instances[i]) # "ok"
  THEN [events |-> acc, exc |-> ParseError(instances[i])]
  ELSE LET event == ParseInstance(instances[i])
       IN ExtractLoopDropsUnlabelled(instances, i + 1,
            IF event.labels # EmptyDict THEN Append(acc, event) ELSE acc)

\* ExtractLoop inserting each event at the front of self.events
RECURSIVE ExtractLoopPrepends(_, _, _)
ExtractLoopPrepends(instances, i, acc) ==
  IF i > Len(instances) THEN [events |-> acc, exc |-> "ok"]
  ELSE IF ParseError(instances[i]) # "ok"
  THEN [events |-> acc, exc |-> ParseError(instances[i])]
  ELSE LET event == ParseInstance(instances[i])
       IN ExtractLoopPrepends(instances, i + 1,
            IF DOMAIN event # {} THEN <<event>> \o acc ELSE acc)

\* ExtractLoop catching the conversion error and going on to the next
\* instance
RECURSIVE ExtractLoopSkipsBadInstance(_, _, _)
ExtractLoopSkipsBadInstance(instances, i, acc) ==
  IF i > Len(instances) THEN [events |-> acc, exc |-> "ok"]
  ELSE IF ParseError(instances[i]) # "ok"
  THEN ExtractLoopSkipsBadInstance(instances, i + 1, acc)
  ELSE LET event == ParseInstance(instances[i])
       IN ExtractLoopSkipsBadInstance(instances, i + 1,
            IF DOMAIN event # {} THEN Append(acc, event) ELSE acc)

\* the loop of extract_events over the instances from position i on, acc
\* being self.events: [events, exc]
RECURSIVE ExtractLoop(_, _, _)
ExtractLoop(instances, i, acc) ==
  IF i > Len(instances) THEN [events |-> acc, exc |-> "ok"]
  ELSE IF ParseError(instances[i]) # "ok"
  THEN [events |-> acc, exc |-> ParseError(instances[i])]
  ELSE LET event == ParseInstance(instances[i])
       IN ExtractLoop(instances, i + 1,
                      IF DOMAIN event # {} THEN Append(acc, event) ELSE acc)

\* bool(element): an Element is true when it has children
Truthy(element) == IF element = PyNone THEN FALSE ELSE element.children

\* root.find('.//ALL_INSTANCES') is not None
HasContainer(element) == IF element = PyNone THEN FALSE ELSE element.container

extract_events ==
  /\ \/ /\ ~Truthy(root)
        /\ events' = events
        /\ ret' = ReturnedNone("extract_events")
     \/ /\ Truthy(root) /\ ~HasContainer(root)
        /\ events' = events
        /\ ret' = ReturnedNone("extract_events")
     \/ /\ Truthy(root) /\ HasContainer(root)
        /\ LET run == ExtractLoop(root.instances, 1, <<>>)
           IN /\ events' = run.events
              /\ ret' = IF run.exc = "ok"
                        THEN Returned("extract_events", run.events)
                        ELSE Raised("extract_events", run.exc)
  /\ UNCHANGED <<file, root, df>>

----------------------------------------------------------------------------
(* get_summary_stats *)

\* d.get(k): None when the key is missing
Get(d, k) == IF k \in DOMAIN d THEN d[k] ELSE <<>>

\* d[k] = d.get(k, 0) + 1
Count(d, k) ==
  [x \in DOMAIN d \cup {k} |->
     IF x = k THEN (IF k \in DOMAIN d THEN d[k] ELSE 0) + 1 ELSE d[x]]

InitialStats(evs) ==
  [total_events |-> Len(evs), teams |-> {}, actions |-> EmptyDict,
   halves |-> EmptyDict, time_range |-> [start |-> Inf, end |-> 0]]

\* the time_range after one event; the caller has checked that the event
\* holds the keys this reads
TrackTime(range, event) ==
  [start |-> Min2(range.start, event.start_time),
   end |-> Max2(range.end, event.end_time)]

\* the event['end_time'] of line 129 raises KeyError
TimeKeyError(event) ==
  "start_time" \in DOMAIN event /\ "end_time" \notin DOMAIN event

\* StatsStep without the test team != 'None'
StatsStepKeepsNoneTeam(stats, event) ==
  LET labels == IF "labels" \in DOMAIN event THEN event.labels ELSE EmptyDict
      team == Get(labels, "Team")
      action == Get(labels, "Action")
      half == Get(labels, "Half")
  IN [total_events |-> stats.total_events,
      teams |-> IF team # <<>>
                THEN stats.teams \cup {team} ELSE stats.teams,
      actions |-> IF action # <<>>
                  THEN Count(stats.actions, action) ELSE stats.actions,
      halves |-> IF half # <<>>
                 THEN Count(stats.halves, half) ELSE stats.halves,
      time_range |-> IF "start_time" \in DOMAIN event
                     THEN TrackTime(stats.time_range, event)
                     ELSE stats.time_range]

\* stats after the body of the loop has run for one event
StatsStep(stats, event) ==
  LET labels == IF "labels" \in DOMAIN event THEN event.labels ELSE EmptyDict
      team == Get(labels, "Team")
      action == Get(labels, "Action")
      half == Get(labels, "Half")
  IN [total_events |-> stats.total_events,
      teams |-> IF team # <<>> /\ team # NoneText
                THEN stats.teams \cup {team} ELSE stats.teams,
      actions |-> IF action # <<>>
                  THEN Count(stats.actions, action) ELSE stats.actions,
      halves |-> IF half # <<>>
                 THEN Count(stats.halves, half) ELSE stats.halves,
      time_range |-> IF "start_time" \in DOMAIN event
                     THEN TrackTime(stats.time_range, event)
                     ELSE stats.time_range]

\* the loop of get_summary_stats from position i on: [stats, exc]
RECURSIVE StatsLoop(_, _, _)
StatsLoop(evs, i, stats) ==
  IF i > Len(evs) THEN [stats |-> stats, exc |-> "ok"]
  ELSE IF TimeKeyError(evs[i]) THEN [stats |-> stats, exc |-> "KeyError"]
  ELSE StatsLoop(evs, i + 1, StatsStep(stats, evs[i]))

\* list(s): the elements of the set s, each once, in the order the set
\* happens to iterate in
ListsOf(s) ==
  {l \in SeqsUpTo(s, Cardinality(s)) :
     Len(l) = Cardinality(s) /\ {l[i] : i \in 1..Len(l)} = s}

\* the outcomes get_summary_stats can have on the event list evs
SummaryStats(evs) ==
  IF evs = <<>> THEN {Returned("get_summary_stats", EmptyDict)}
  ELSE LET run == StatsLoop(evs, 1, InitialStats(evs))
       IN IF run.exc = "ok"
          THEN {Returned("get_summary_stats",
                         [run.stats EXCEPT !.teams = teams]) :
                  teams \in ListsOf(run.stats.teams)}
          ELSE {Raised("get_summary_stats", run.exc)}

get_summary_stats ==
  /\ ret' \in SummaryStats(events)
  /\ UNCHANGED <<file, root, events, df>>

----------------------------------------------------------------------------
(* get_events_by_action, get_events_by_team, get_events_by_half *)

\* The argument of a filter is a str: a sequence of characters, where <<>>
\* is the empty string. A label value is an element text, where <<>> is
\* None; None equals no str.
ActionQueries == {Goals, Passes, <<>>}

TeamQueries == {TeamA, TeamB, <<>>}

HalfQueries == {Half1, Half2, <<>>}

\* sub in text, for two strs
Contains(text, sub) ==
  \E i \in 0..(Len(text) - Len(sub)) : SubSeq(text, i + 1, i + Len(sub)) = sub

\* event.get('labels', {}).get(group) == value
LabelEquals(event, group, value) ==
  LET labels == IF "labels" \in DOMAIN event THEN event.labels ELSE EmptyDict
  IN /\ group \in DOMAIN labels
     /\ labels[group] # <<>>
     /\ labels[group] = value

\* the list comprehension of get_events_by_action
EventsByAction(evs, action_type) ==
  SelectSeq(evs, LAMBDA event : LabelEquals(event, "Action", action_type))

\* EventsByHalf iterating over self.events[1:]
EventsByHalfSkipsFirst(evs, half) ==
  SelectSeq(SubSeq(evs, 2, Len(evs)), LAMBDA event : LabelEquals(event, "Half", half))

\* the list comprehension of get_events_by_half
EventsByHalf(evs, half) ==
  SelectSeq(evs, LAMBDA event : LabelEquals(event, "Half", half))

\* team_name in None: the Team label of the event has the text None
TeamTypeError(event) ==
  LET labels == IF "labels" \in DOMAIN event THEN event.labels ELSE EmptyDict
  IN "Team" \in DOMAIN labels /\ labels.Team = <<>>

\* team_name in event.get('labels', {}).get('Team', ''), when it does not
\* raise
TeamContains(event, team_name) ==
  LET labels == IF "labels" \in DOMAIN event THEN event.labels ELSE EmptyDict
  IN IF "Team" \in DOMAIN labels
     THEN Contains(labels.Team, team_name)
     ELSE Contains(<<>>, team_name)

\* the list comprehension of get_events_by_team, when no test raises
EventsByTeam(evs, team_name) ==
  SelectSeq(evs, LAMBDA event : TeamContains(event, team_name))

get_events_by_action ==
  \E action_type \in ActionQueries :
    /\ ret' = ReturnedFrom("get_events_by_action", action_type,
                           EventsByAction(events, action_type))
    /\ UNCHANGED <<file, root, events, df>>

get_events_by_team ==
  \E team_name \in TeamQueries :
    /\ ret' = IF \E i \in 1..Len(events) : TeamTypeError(events[i])
              THEN RaisedFrom("get_events_by_team", team_name, "TypeError")
              ELSE ReturnedFrom("get_events_by_team", team_name,
                                EventsByTeam(events, team_name))
    /\ UNCHANGED <<file, root, events, df>>

\* get_events_by_half assigning its result to self.events
get_events_by_half_assigns ==
  \E half \in HalfQueries :
    /\ ret' = ReturnedFrom("get_events_by_half", half, EventsByHalf(events, half))
    /\ events' = EventsByHalf(events, half)
    /\ UNCHANGED <<file, root, df>>

get_events_by_half ==
  \E half \in HalfQueries :
    /\ ret' = ReturnedFrom("get_events_by_half", half, EventsByHalf(events, half))
    /\ UNCHANGED <<file, root, events, df>>

Next ==
  \/ parse_xml
  \/ extract_events
  \/ get_summary_stats
  \/ get_events_by_action
  \/ get_events_by_team
  \/ get_events_by_half

Spec == Init /\ [][Next]_vars

----------------------------------------------------------------------------
(* The same parser while the file at its path is replaced between calls *)

\* the files of this specification: every kind of file, the documents
\* with at most one instance
ReloadFiles ==
  {f \in Files : f.kind = "xml" => Len(f.root.instances) <= 1}

InitReload ==
  /\ file \in ReloadFiles
  /\ root = PyNone
  /\ events = <<>>
  /\ ret = [op |-> "__init__", kind |-> "return_none"]
  /\ df = PyNone

\* the environment replaces the file
rewrite_file ==
  /\ file' \in ReloadFiles \ {file}
  /\ UNCHANGED <<root, events, ret, df>>

NextReload ==
  \/ parse_xml
  \/ extract_events
  \/ get_summary_stats
  \/ rewrite_file

SpecReload == InitReload /\ [][NextReload]_vars

----------------------------------------------------------------------------
(* Texts of the report: str.split, str.strip, sorted *)

\* the place of the first occurrence of sub in text, 0 when there is none
Find(text, sub) ==
  IF Contains(text, sub)
    THEN 1 + CHOOSE i \in 0..(Len(text) - Len(sub)) :
               /\ SubSeq(text, i + 1, i + Len(sub)) = sub
               /\ \A j \in 0..(i - 1) : SubSeq(text, j + 1, j + Len(sub)) # sub
    ELSE 0

\* text.split(sep, maxsplit): the list of the pieces, maxsplit -1 for no
\* limit
RECURSIVE Split(_, _, _)
Split(text, sep, maxsplit) ==
  IF maxsplit = 0 \/ ~Contains(text, sep)
    THEN <<text>>
    ELSE LET at == Find(text, sep)
         IN <<SubSeq(text, 1, at - 1)>> \o
            Split(SubSeq(text, at + Len(sep), Len(text)), sep,
                  IF maxsplit > 0 THEN maxsplit - 1 ELSE maxsplit)

\* text.strip()
RECURSIVE Strip(_)
Strip(text) ==
  IF text = <<>> THEN text
  ELSE IF Head(text) = " " THEN Strip(SubSeq(text, 2, Len(text)))
  ELSE IF text[Len(text)] = " " THEN Strip(SubSeq(text, 1, Len(text) - 1))
  ELSE text

\* the characters of the texts, in the order of their code points
CodePoints ==
  <<" ", "(", ")", "-", ".", "0", "1", "2", "3", "4", "5", "6", "7", "8",
    "9", "A", "G", "J", "N", "P", "S", "a", "c", "e", "h", "i", "l", "m",
    "n", "o", "r", "s", "t", "u", "x">>

Ord(c) == CHOOSE i \in 1..Len(CodePoints) : CodePoints[i] = c

\* a < b as Python orders two str
RECURSIVE StrLess(_, _)
StrLess(a, b) ==
  IF b = <<>> THEN FALSE
  ELSE IF a = <<>> THEN TRUE
  ELSE IF Head(a) = Head(b)
         THEN StrLess(SubSeq(a, 2, Len(a)), SubSeq(b, 2, Len(b)))
         ELSE Ord(Head(a)) < Ord(Head(b))

\* sorted(list(players))
Sorted(players) ==
  CHOOSE l \in ListsOf(players) :
    \A i \in 1..Len(l) : \A j \in 1..Len(l) : i < j => StrLess(l[i], l[j])

----------------------------------------------------------------------------
(* The table of a PlayerReport *)

MaxRows == 2

\* a number, the name between spaces, then the action
CodeSpaced ==
  <<"7", ".", " ", "A", "l", " ", "(", "9", ")", " ", "-", " ", "G">>
\* the same without the spaces
CodeTight == <<"7", ".", "A", "l", "(", "9", ")", " ", "-", " ", "G">>
CodeExample ==
  <<"1", "2", ".", "J", "o", "h", "n", " ", "S", "m", "i", "t", "h", "(",
    "5", ")", " ", "-", " ", "P", "a", "s", "s", "e", "s", " ", "a", "c",
    "c", "u", "r", "a", "t", "e">>
\* codes that lack one of the three markers
CodeNoDash == <<"7", ".", "A", "l", "(", "9", ")">>
CodeNoDot == <<"A", "l", "(", "9", ")", " ", "-", " ", "G">>
CodeNoParen == <<"7", ".", "A", "l", " ", "-", " ", "G">>
\* all three markers, the "." only behind the " - "
CodeDotRight == <<"A", "l", "(", "9", ")", " ", "-", " ", "G", ".">>
\* all three markers, the "(" only behind the " - "
CodeParenRight == <<"7", ".", "A", "l", " ", "-", " ", "G", "(", "x", ")">>
\* codes whose name part is None or blank
CodeNone ==
  <<"7", ".", "N", "o", "n", "e", "(", "9", ")", " ", "-", " ", "G">>
CodeBlank == <<"7", ".", " ", "(", "9", ")", " ", "-", " ", "G">>
\* a name that holds a ".", and a name that differs from it there
CodeDotted ==
  <<"7", ".", " ", "A", ".", "l", " ", "(", "9", ")", " ", "-", " ", "G">>
CodeAxl ==
  <<"7", ".", " ", "A", "x", "l", " ", "(", "9", ")", " ", "-", " ", "G">>

Codes ==
  {CodeSpaced, CodeTight, CodeExample, CodeNoDash, CodeNoDot, CodeNoParen,
   CodeDotRight, CodeParenRight, CodeNone, CodeBlank, CodeDotted, CodeAxl}

\* the names asked for
Al == <<"A", "l">>
ADotL == <<"A", ".", "l">>
Axl == <<"A", "x", "l">>
JohnSmith == <<"J", "o", "h", "n", " ", "S", "m", "i", "t", "h">>

PlayerNames == {Al, ADotL, Axl, JohnSmith}

\* one line of the CSV file, its cells as texts, <<>> an empty cell
CsvLine(code, start_time, label_team, label_pos_x, label_pos_y) ==
  [code |-> code, start_time |-> start_time, label_team |-> label_team,
   label_pos_x |-> label_pos_x, label_pos_y |-> label_pos_y]

CsvLines ==
  {CsvLine(CodeSpaced, <<"1", "0">>, TeamA, <<"5">>, <<"5">>),
   CsvLine(CodeSpaced, <<"3", "0", "0">>, TeamA, <<"5">>, <<"5">>),
   CsvLine(CodeSpaced, <<"5", "4", "0", "0", ".", "5">>, TeamA, <<"5">>, <<"5">>),
   CsvLine(CodeSpaced, <<"6", "0", "0", "0">>, TeamA, <<"5">>, <<"5">>),
   CsvLine(CodeSpaced, <<>>, <<>>, <<"5">>, <<"5">>),
   CsvLine(CodeTight, <<"2", "0">>, TeamA, <<"5">>, <<"5">>),
   CsvLine(CodeExample, <<"3", "0">>, TeamB, <<"5">>, <<"5">>),
   CsvLine(CodeNoDash, <<"4", "0">>, TeamA, <<"5">>, <<"5">>),
   CsvLine(CodeNoDot, <<"5", "0">>, TeamA, <<"5">>, <<"5">>),
   CsvLine(CodeNoParen, <<"6", "0">>, TeamB, <<"5">>, <<"5">>),
   CsvLine(CodeDotRight, <<"7", "0">>, TeamA, <<"5">>, <<"5">>),
   CsvLine(CodeParenRight, <<"8", "0">>, TeamA, <<"5">>, <<"5">>),
   CsvLine(CodeNone, <<"9", "0">>, TeamA, <<"5">>, <<"5">>),
   CsvLine(CodeBlank, <<"1", "0", "0">>, TeamB, <<"5">>, <<"5">>),
   CsvLine(CodeDotted, <<"1", "1", "0">>, TeamA, <<"5">>, <<"5">>),
   CsvLine(CodeAxl, <<"1", "2", "0">>, TeamA, <<"5">>, <<"5">>),
   CsvLine(<<>>, <<"1", "3", "0">>, TeamA, <<"5">>, <<"5">>),
   CsvLine(CodeSpaced, Abc, TeamB, <<"5">>, <<"5">>),
   CsvLine(CodeSpaced, <<"1", "4", "0">>, TeamA, <<>>, <<"5">>)}

\* the CSV files: none at the path, or a file of at most MaxRows lines
CsvFiles ==
  {[kind |-> "missing"]} \cup
  {[kind |-> "csv", lines |-> l] : l \in SeqsUpTo(CsvLines, MaxRows)}

\* pd.to_numeric(errors='coerce') on one cell: the column's entry of the
\* row, none for NaN; numbers in tenths
ToNumeric(column, text) ==
  IF IsFloatText(text) THEN column :> FloatOf(text) ELSE EmptyDict

\* a row of the table: code and label_team are texts, <<>> for NaN; a
\* numeric column is in the row's domain when its value is not NaN
ReadLine(line) ==
  [code |-> line.code, label_team |-> line.label_team] @@
  ToNumeric("start_time", line.start_time) @@
  ToNumeric("label_pos_x", line.label_pos_x) @@
  ToNumeric("label_pos_y", line.label_pos_y)

\* the column is one of str: read_csv types a column without any value as
\* float64 when the file has lines
IsStrColumn(lines, column) ==
  lines = <<>> \/ \E i \in 1..Len(lines) : lines[i][column] # <<>>

\* self.df after load_data
load_data(f) ==
  IF f.kind = "missing" THEN PyNone
  ELSE [kind |-> "table",
        rows |-> SelectSeq([i \in 1..Len(f.lines) |-> ReadLine(f.lines[i])],
                           LAMBDA row : /\ "label_pos_x" \in DOMAIN row
                                        /\ "label_pos_y" \in DOMAIN row),
        code_str |-> IsStrColumn(f.lines, "code"),
        team_str |-> IsStrColumn(f.lines, "label_team")]

----------------------------------------------------------------------------
(* The names of the players *)

\* one turn of the loop over the codes: the name the code adds to the
\* set, none, or the exception of the turn
DecomposeAnyMarker(code) ==
  IF ~(Contains(code, <<" ", "-", " ">>) \/ Contains(code, <<".">>)
       \/ Contains(code, <<"(">>))
    THEN [kind |-> "none"]
    ELSE LET player_part == Split(code, <<" ", "-", " ">>, -1)[1]
             parts == Split(player_part, <<".">>, 1)
         IN IF Len(parts) < 2 THEN [kind |-> "raise", exc |-> "IndexError"]
            ELSE LET player_name == Strip(Split(parts[2], <<"(">>, -1)[1])
                 IN IF player_name # <<>> /\ player_name # NoneText
                      THEN [kind |-> "name", name |-> player_name]
                      ELSE [kind |-> "none"]

DecomposeUntrimmed(code) ==
  IF ~(Contains(code, <<" ", "-", " ">>) /\ Contains(code, <<".">>)
       /\ Contains(code, <<"(">>))
    THEN [kind |-> "none"]
    ELSE LET player_part == Split(code, <<" ", "-", " ">>, -1)[1]
             parts == Split(player_part, <<".">>, 1)
         IN IF Len(parts) < 2 THEN [kind |-> "raise", exc |-> "IndexError"]
            ELSE LET player_name == Split(parts[2], <<"(">>, -1)[1]
                 IN IF player_name # <<>> /\ player_name # NoneText
                      THEN [kind |-> "name", name |-> player_name]
                      ELSE [kind |-> "none"]

Decompose(code) ==
  IF ~(Contains(code, <<" ", "-", " ">>) /\ Contains(code, <<".">>)
       /\ Contains(code, <<"(">>))
    THEN [kind |-> "none"]
    ELSE LET player_part == Split(code, <<" ", "-", " ">>, -1)[1]
             parts == Split(player_part, <<".">>, 1)
         IN IF Len(parts) < 2 THEN [kind |-> "raise", exc |-> "IndexError"]
            ELSE LET player_name == Strip(Split(parts[2], <<"(">>, -1)[1])
                 IN IF player_name # <<>> /\ player_name # NoneText
                      THEN [kind |-> "name", name |-> player_name]
                      ELSE [kind |-> "none"]

\* the loop over frame['code'].dropna() from row i on: the set of names,
\* or the exception and the row whose code raised it
RECURSIVE PlayersLoop(_, _, _)
PlayersLoop(frame, i, players) ==
  IF i > Len(frame) THEN [exc |-> "ok", players |-> players]
  ELSE IF frame[i].code = <<>> THEN PlayersLoop(frame, i + 1, players)
  ELSE LET turn == Decompose(frame[i].code)
       IN IF turn.kind = "raise" THEN [exc |-> turn.exc, at |-> i]
          ELSE IF turn.kind = "name"
                 THEN PlayersLoop(frame, i + 1, players \cup {turn.name})
                 ELSE PlayersLoop(frame, i + 1, players)

RaisedAt(op, arg, exc, at) ==
  [op |-> op, arg |-> arg, kind |-> "raise", exc |-> exc, at |-> at]

\* the arguments of get_player_list: a team name, <<>> for the default
TeamArgs == {<<>>, TeamA}

\* self.df[self.df['label_team'].str.contains(team_name, na=False)]: the
\* names asked for hold no character special to a pattern
TeamFrame(rows, team_name) ==
  SelectSeq(rows, LAMBDA row : /\ row.label_team # <<>>
                               /\ Contains(row.label_team, team_name))

\* the outcome of get_player_list(team_name) on the table t
PlayerList(t, team_name) ==
  IF t = PyNone THEN RaisedFrom("get_player_list", team_name, "TypeError")
  ELSE IF team_name # <<>> /\ ~t.team_str
    THEN RaisedFrom("get_player_list", team_name, "AttributeError")
  ELSE LET team_df == IF team_name # <<>> THEN TeamFrame(t.rows, team_name)
                      ELSE t.rows
           run == PlayersLoop(team_df, 1, {})
       IN IF run.exc = "ok"
            THEN ReturnedFrom("get_player_list", team_name, Sorted(run.players))
            ELSE RaisedAt("get_player_list", team_name, run.exc, run.at)

get_player_list ==
  /\ \E team_name \in TeamArgs : ret' = PlayerList(df, team_name)
  /\ UNCHANGED <<file, root, events, df>>

----------------------------------------------------------------------------
(* The events of a player and the involvement chart *)

\* re.search(pattern, text) for a pattern of plain characters and "."
PatternSearch(pattern, text) ==
  \E i \in 0..(Len(text) - Len(pattern)) :
    \A k \in 1..Len(pattern) : pattern[k] = "." \/ pattern[k] = text[i + k]

\* the outcome of get_player_events(player_name) on the table t
PlayerEvents(t, player_name) ==
  IF t = PyNone
    THEN RaisedFrom("get_player_events", player_name, "TypeError")
  ELSE IF ~t.code_str
    THEN RaisedFrom("get_player_events", player_name, "AttributeError")
  ELSE ReturnedFrom("get_player_events", player_name,
         SelectSeq(t.rows,
           LAMBDA row : /\ row.code # <<>>
                        /\ PatternSearch(<<" ">> \o player_name \o <<" ">>,
                                         row.code)))

get_player_events ==
  /\ \E player_name \in PlayerNames : ret' = PlayerEvents(df, player_name)
  /\ UNCHANGED <<file, root, events, df>>

\* the length of a window and the least length of a match, in seconds
WindowSeconds == 300

MatchSeconds == 5400

\* list(range(0, stop, step))
Range(stop, step) ==
  [i \in 1..((stop + step - 1) \div step) |-> (i - 1) * step]

\* frame['start_time'].max() in tenths, over the rows that have a time
MaxStart(frame) ==
  LET times == {frame[i].start_time :
                  i \in {j \in 1..Len(frame) : "start_time" \in DOMAIN frame[j]}}
  IN CHOOSE m \in times : \A x \in times : x <= m

\* len(frame[(frame['start_time'] >= start) & (frame['start_time'] < end)]),
\* start and end in seconds
CountIn(frame, start, end) ==
  Cardinality({i \in 1..Len(frame) :
                 /\ "start_time" \in DOMAIN frame[i]
                 /\ frame[i].start_time >= 10 * start
                 /\ frame[i].start_time < 10 * end})

\* the quotient num / den
Quotient(num, den) == [num |-> num, den |-> den]

\* what create_involvement_line_chart(player_name) returns or raises on
\* the table t: the player's counts and the team's values, one per window
InvolvementChart(t, player_name) ==
  LET op == "create_involvement_line_chart"
      found == PlayerEvents(t, player_name)
  IN IF found.kind = "raise" THEN RaisedFrom(op, player_name, found.exc)
     ELSE IF Len(found.val) = 0
       THEN ReturnedFrom(op, player_name, [player |-> <<>>, team |-> <<>>])
     ELSE
       LET player_events == found.val
           player_team == player_events[1].label_team
           team_events ==
             SelectSeq(t.rows, LAMBDA row : /\ row.label_team # <<>>
                                            /\ row.label_team = player_team)
           run == PlayersLoop(team_events, 1, {})
       IN IF run.exc # "ok" THEN RaisedAt(op, player_name, run.exc, run.at)
          ELSE IF \A i \in 1..Len(t.rows) : "start_time" \notin DOMAIN t.rows[i]
            THEN RaisedFrom(op, player_name, "ValueError")
          ELSE
            LET max_time == Max2(MaxStart(t.rows), 10 * MatchSeconds)
                starts == Range(max_time \div 10, WindowSeconds)
            IN ReturnedFrom(op, player_name,
                 [player |->
                    [i \in 1..Len(starts) |->
                       CountIn(player_events, starts[i],
                               starts[i] + WindowSeconds)],
                  team |->
                    [i \in 1..Len(starts) |->
                       IF run.players # {}
                         THEN Quotient(CountIn(team_events, starts[i],
                                               starts[i] + WindowSeconds),
                                       Cardinality(run.players))
                         ELSE Quotient(0, 1)]])

create_involvement_line_chart ==
  /\ \E player_name \in PlayerNames : ret' = InvolvementChart(df, player_name)
  /\ UNCHANGED <<file, root, events, df>>

----------------------------------------------------------------------------
(* A PlayerReport on a CSV file: the table is loaded once, by __init__ *)

InitReport ==
  /\ file = [kind |-> "missing"]
  /\ root = PyNone
  /\ events = <<>>
  /\ df \in {load_data(f) : f \in CsvFiles}
  /\ ret = [op |-> "__init__", kind |-> "return_none"]

NextReport ==
  \/ get_player_list
  \/ get_player_events
  \/ create_involvement_line_chart

SpecReport == InitReport /\ [][NextReport]_vars

----------------------------------------------------------------------------
(* The extractor's claims *)

\* the last call was extract_events and it found the container
Extracted == ret.op = "extract_events" /\ HasContainer(root)

\* every ID, start and end child the instance has holds a number
NumericFieldsOk(instance) ==
  LET c == instance.children
  IN /\ "ID" \in DOMAIN c => IsDigits(c.ID)
     /\ "start" \in DOMAIN c => IsFloatText(c.start)
     /\ "end" \in DOMAIN c => IsFloatText(c.end)

WellFormed(element) ==
  \A i \in 1..Len(element.instances) : NumericFieldsOk(element.instances[i])

\* a text that is there and is no number
NonNumeric(t) == t # <<>> /\ ~IsFloatText(t)

\* the ID, start or end child of the instance holds non-numeric text
HasNonNumeric(instance) ==
  \E f \in {"ID", "start", "end"} \cap DOMAIN instance.children :
     NonNumeric(instance.children[f])

\* an ID, start or end child of the instance is an empty element
HasEmptyNumber(instance) ==
  \E f \in {"ID", "start", "end"} \cap DOMAIN instance.children :
     instance.children[f] = <<>>

\* C1: on a document whose container holds n instances, all their numeric
\* children holding numbers, extract_events returns a list of exactly n
\* events (and self.events holds as many): nothing dropped, nothing doubled.
C1_OneEventPerInstance ==
  (Extracted /\ WellFormed(root))
    => /\ ret.kind = "return"
       /\ Len(ret.val) = Len(root.instances)
       /\ Len(events) = Len(root.instances)

\* C1 witness: a full container with an instance that has no children and
\* no labels has been extracted.
C1_Witness ==
  /\ Extracted /\ WellFormed(root)
  /\ Len(root.instances) = MaxInst
  /\ \E i \in 1..Len(root.instances) :
        root.instances[i] = Instance(EmptyDict, <<>>)
  /\ ret.kind = "return" /\ Len(ret.val) = MaxInst

\* C2: the i-th event returned is the event of the i-th instance of the
\* container, for every i: its id, times, code and labels are that
\* instance's.
C2_SourceOrder ==
  (Extracted /\ ret.kind = "return")
    => /\ ret.val = events
       /\ \A i \in 1..Len(ret.val) :
            /\ i <= Len(root.instances)
            /\ ret.val[i] = ParseInstance(root.instances[i])
            /\ "ID" \in DOMAIN root.instances[i].children
                 => ret.val[i].id = IntOf(root.instances[i].children.ID)

\* C2 witness: two instances with different IDs, the larger first, have
\* been extracted.
C2_Witness ==
  /\ Extracted /\ ret.kind = "return"
  /\ Len(ret.val) = 2
  /\ "id" \in DOMAIN ret.val[1] /\ "id" \in DOMAIN ret.val[2]
  /\ ret.val[1].id > ret.val[2].id

\* C3 as stated: with non-numeric text in an ID, start or end child,
\* extract_events fails with the ParseError of malformed markup.
C3_FailsWithParseError ==
  (Extracted /\ \E i \in 1..Len(root.instances) : HasNonNumeric(root.instances[i]))
    => ret.kind = "raise" /\ ret.exc = "ParseError"

\* C3 amended: with non-numeric text in an ID, start or end child,
\* extract_events raises ValueError (TypeError when an empty ID, start or
\* end element is in the document), never ParseError, and self.events
\* holds no event for that instance or a later one: the field is neither
\* skipped nor replaced.
C3_FailsWithValueError ==
  (Extracted /\ \E i \in 1..Len(root.instances) : HasNonNumeric(root.instances[i]))
    => /\ ret.kind = "raise"
       /\ ret.exc \in {"ValueError", "TypeError"}
       /\ (\A i \in 1..Len(root.instances) : ~HasEmptyNumber(root.instances[i]))
            => ret.exc = "ValueError"
       /\ \A i \in 1..Len(root.instances) :
            HasNonNumeric(root.instances[i]) => Len(events) < i

\* C3 witness: extraction has raised ValueError on a document whose second
\* instance has a non-numeric field.
C3_Witness ==
  /\ Extracted
  /\ Len(root.instances) = 2
  /\ ~HasNonNumeric(root.instances[1])
  /\ HasNonNumeric(root.instances[2])
  /\ ret.kind = "raise" /\ ret.exc = "ValueError"

\* the first instance of the container with a numeric child that does not
\* convert
FirstBad(element) ==
  CHOOSE k \in 1..Len(element.instances) :
    /\ ~NumericFieldsOk(element.instances[k])
    /\ \A j \in 1..(k - 1) : NumericFieldsOk(element.instances[j])

\* C4 as stated: when extract_events fails on the k-th instance,
\* self.events afterwards holds none of the events of the k-1 instances
\* parsed before it.
C4_NoPartialEvents ==
  (Extracted /\ ret.kind = "raise")
    => \A j \in 1..Len(events) : \A i \in 1..(FirstBad(root) - 1) :
         events[j] # ParseInstance(root.instances[i])

\* C5 as stated: on a loaded document without an ALL_INSTANCES element
\* extract_events returns the empty list.
C5_EmptySequenceWithoutContainer ==
  (ret.op = "extract_events" /\ root # PyNone /\ ~HasContainer(root))
    => ret.kind = "return" /\ ret.val = <<>>

\* C6 as stated: a load of malformed markup ends in a ParseError, a load of
\* a missing or unreadable source in a NotFoundError, so that the outcome
\* names the cause; the load leaves the parser's document as it was.
C6_CausesToldApart ==
  [][(file' = file /\ ret'.op = "parse_xml" /\ file.kind # "xml")
       => /\ ret'.kind = "raise"
          /\ ret'.exc = (IF file.kind = "malformed"
                         THEN "ParseError" ELSE "NotFoundError")
          /\ root' = root]_vars

\* C6 amended: parse_xml returns False on malformed markup and False on a
\* missing source, the same outcome for both causes; on an unreadable
\* source the OSError leaves the method; in all three cases the load leaves
\* the parser's document as it was (none on a new parser). On a well-formed
\* document it returns True and the document is loaded.
C6_LoadOutcome ==
  [][(file' = file /\ ret'.op = "parse_xml")
       => /\ file.kind \in {"malformed", "missing"}
               => ret' = Returned("parse_xml", FALSE) /\ root' = root
          /\ file.kind = "unreadable"
               => ret'.kind = "raise" /\ ret'.exc = "PermissionError" /\ root' = root
          /\ file.kind = "xml"
               => ret' = Returned("parse_xml", TRUE) /\ root' = file.root]_vars

\* C6 witness: a load has failed on a missing file while an earlier
\* document is still the parser's root.
C6_Witness ==
  /\ ret = Returned("parse_xml", FALSE)
  /\ file.kind = "missing"
  /\ root # PyNone

----------------------------------------------------------------------------
(* The summary's claims *)

\* the last call was get_summary_stats, on a list that is not empty
Summarised == ret.op = "get_summary_stats" /\ events # <<>>

\* the values the events carry for a label group (an empty text element
\* carries none)
LabelValues(evs, group) ==
  {evs[i].labels[group] : i \in {j \in 1..Len(evs) : group \in DOMAIN evs[j].labels}}
    \ {<<>>}

\* the number of events whose label of the group is v
Carrying(evs, group, v) ==
  Cardinality({i \in 1..Len(evs) :
                 group \in DOMAIN evs[i].labels /\ evs[i].labels[group] = v})

\* the times the events carry in a field
Times(evs, field) ==
  {evs[i][field] : i \in {j \in 1..Len(evs) : field \in DOMAIN evs[j]}}

\* C7 as stated: the summary of the empty event list is the full record
\* with zero events, no teams, no actions, no halves and the time range
\* from +infinity to 0.
C7_FullRecordOnEmpty ==
  (ret.op = "get_summary_stats" /\ events = <<>>)
    => /\ ret.kind = "return"
       /\ ret.val = [total_events |-> 0, teams |-> <<>>, actions |-> EmptyDict,
                     halves |-> EmptyDict,
                     time_range |-> [start |-> Inf, end |-> 0]]

\* C8 as stated: on every event list that is not empty get_summary_stats
\* reports total_events = the number of events, and actions (halves) maps
\* exactly the Action (Half) values the events carry, each to the number of
\* events carrying it.
C8_CountsOnEveryList ==
  Summarised
    => /\ ret.kind = "return"
       /\ ret.val.total_events = Len(events)
       /\ DOMAIN ret.val.actions = LabelValues(events, "Action")
       /\ \A v \in DOMAIN ret.val.actions :
            ret.val.actions[v] = Carrying(events, "Action", v)
       /\ DOMAIN ret.val.halves = LabelValues(events, "Half")
       /\ \A v \in DOMAIN ret.val.halves :
            ret.val.halves[v] = Carrying(events, "Half", v)

\* C9: the teams list of a summary get_summary_stats returns holds exactly
\* the Team values the events carry other than the literal "None", each
\* once.
C9_TeamsDistinctWithoutNone ==
  (Summarised /\ ret.kind = "return")
    => LET teams == ret.val.teams
       IN /\ {teams[i] : i \in 1..Len(teams)}
               = LabelValues(events, "Team") \ {NoneText}
          /\ \A i, j \in 1..Len(teams) : teams[i] = teams[j] => i = j

\* C9 witness: a summary has been returned for two events, one of a team
\* and one whose Team label is the literal "None".
C9_Witness ==
  /\ Summarised /\ ret.kind = "return"
  /\ Len(events) = 2
  /\ LabelValues(events, "Team") = {TeamA, NoneText}
  /\ ret.val.teams = <<TeamA>>

\* C10 as stated: time_range.start is the least start_time of the events
\* that carry one (+infinity when none does), time_range.end the greatest
\* end_time of the events that carry one, whether or not they carry a
\* start_time (0 when no event carries a start_time).
C10_TimeRangeIndependent ==
  Summarised
    => /\ ret.kind = "return"
       /\ \A t \in Times(events, "start_time") : ret.val.time_range.start <= t
       /\ ret.val.time_range.start \in Times(events, "start_time") \cup {Inf}
       /\ Times(events, "start_time") = {}
            => ret.val.time_range = [start |-> Inf, end |-> 0]
       /\ Times(events, "start_time") # {}
            => /\ ret.val.time_range.start \in Times(events, "start_time")
               /\ \A t \in Times(events, "end_time") : ret.val.time_range.end >= t
               /\ ret.val.time_range.end \in Times(events, "end_time") \cup {0}

----------------------------------------------------------------------------
(* The filters' claims *)

QueryOps ==
  {"get_events_by_action", "get_events_by_team", "get_events_by_half",
   "get_summary_stats"}

\* the event has a label of the group, with a text that holds (equals) the
\* value
LabelHolds(event, group, value) ==
  /\ group \in DOMAIN event.labels
  /\ event.labels[group] # <<>>
  /\ Contains(event.labels[group], value)

LabelIs(event, group, value) ==
  /\ group \in DOMAIN event.labels
  /\ event.labels[group] # <<>>
  /\ event.labels[group] = value

\* C11 as stated: the Action and the Half filter return, in source order,
\* exactly the events whose label of the group equals the value, the Team
\* filter exactly the events whose Team label contains the value; an event
\* without the label is never returned.
C11_FiltersSelectByLabel ==
  /\ ret.op = "get_events_by_action"
       => /\ ret.kind = "return"
          /\ ret.val = SelectSeq(events, LAMBDA e : LabelIs(e, "Action", ret.arg))
  /\ ret.op = "get_events_by_half"
       => /\ ret.kind = "return"
          /\ ret.val = SelectSeq(events, LAMBDA e : LabelIs(e, "Half", ret.arg))
  /\ ret.op = "get_events_by_team"
       => /\ ret.kind = "return"
          /\ ret.val = SelectSeq(events, LAMBDA e : LabelHolds(e, "Team", ret.arg))

\* C12: the Half filter applied to its own result, with the same value,
\* returns that result.
C12_HalfFilterIdempotent ==
  ret.op = "get_events_by_half"
    => /\ ret.kind = "return"
       /\ EventsByHalf(ret.val, ret.arg) = ret.val

\* C12 witness: the Half filter has kept two events of one half.
C12_Witness ==
  /\ ret.op = "get_events_by_half"
  /\ ret.arg = Half1
  /\ Len(ret.val) = 2
  /\ ret.val[1] # ret.val[2]

\* C16 as stated: get_summary_stats and the three filters raise on no event
\* list extract_events produces.
C16_QueriesNeverRaise ==
  ret.op \in QueryOps => ret.kind # "raise"

\* C20: a call of a query operation leaves self.events, and so every event
\* in it, as it was.
C20_QueriesLeaveEvents ==
  [][ret'.op \in QueryOps => events' = events]_vars

\* C20 witness: a filter has returned one of the two events extracted, and
\* both are still in self.events.
C20_Witness ==
  /\ ret.op = "get_events_by_half"
  /\ HasContainer(root)
  /\ Len(root.instances) = 2
  /\ Len(events) = 2
  /\ Len(ret.val) = 1

----------------------------------------------------------------------------
(* The claims about the names of the players *)

Dash == <<" ", "-", " ">>

\* the code has none of, or not all of, the markers " - ", "." and "("
LacksMarker(code) ==
  Find(code, Dash) = 0 \/ Find(code, <<".">>) = 0 \/ Find(code, <<"(">>) = 0

\* the text left of the first " - "
LeftOf(code) == SubSeq(code, 1, Find(code, Dash) - 1)

\* the text after the first "." of the text left of the first " - "
AfterDot(code) ==
  SubSeq(LeftOf(code), Find(LeftOf(code), <<".">>) + 1, Len(LeftOf(code)))

\* text without the spaces around it
Trim(text) ==
  LET inked == {i \in 1..Len(text) : text[i] # " "}
  IN IF inked = {} THEN <<>>
     ELSE SubSeq(text, CHOOSE i \in inked : \A j \in inked : i <= j,
                       CHOOSE i \in inked : \A j \in inked : j <= i)

\* prefix "." name "(" rest " - " action
HasForm(code) ==
  /\ Find(code, Dash) > 0
  /\ Find(LeftOf(code), <<".">>) > 0
  /\ Find(AfterDot(code), <<"(">>) > 0

NameInForm(code) ==
  Trim(SubSeq(AfterDot(code), 1, Find(AfterDot(code), <<"(">>) - 1))

\* the rows the last call of get_player_list went through
ListFrame ==
  IF ret.arg # <<>> THEN TeamFrame(df.rows, ret.arg) ELSE df.rows

ListReturned == ret.op = "get_player_list" /\ ret.kind = "return"

InList(name) == \E k \in 1..Len(ret.val) : ret.val[k] = name

\* C13 as stated: a code of the form prefix "." name "(" rest " - " action
\* gives the text between the first "." and the first "(" of the part left
\* of the first " - ", trimmed, as the name of a player (name is a text
\* that is not blank).
C13_FormYieldsName ==
  ListReturned =>
    \A i \in 1..Len(ListFrame) :
      LET code == ListFrame[i].code
      IN (code # <<>> /\ HasForm(code) /\ NameInForm(code) # <<>>)
           => InList(NameInForm(code))

\* C13, amended: a code of that form gives the trimmed text as the name of
\* a player unless the trimmed text is empty or is the text None; then the
\* code gives no name. "12.John Smith(5) - Passes accurate" gives
\* "John Smith".
C13_FormYieldsNamedPlayer ==
  ListReturned =>
    /\ \A i \in 1..Len(ListFrame) :
         LET code == ListFrame[i].code
         IN (code # <<>> /\ HasForm(code)) =>
              IF NameInForm(code) \in {<<>>, NoneText}
                THEN ~InList(NameInForm(code))
                ELSE InList(NameInForm(code))
    /\ (\E i \in 1..Len(ListFrame) : ListFrame[i].code = CodeExample)
         => InList(JohnSmith)

C13_Witness ==
  /\ ListReturned
  /\ \E i \in 1..Len(ListFrame) : ListFrame[i].code = CodeExample
  /\ \E i \in 1..Len(ListFrame) : ListFrame[i].code = CodeSpaced
  /\ ret.val = <<Al, JohnSmith>>

\* the name of a code that has the three markers and a "." left of the
\* first " - "
NameOf(code) ==
  Trim(IF Find(AfterDot(code), <<"(">>) > 0
         THEN SubSeq(AfterDot(code), 1, Find(AfterDot(code), <<"(">>) - 1)
         ELSE AfterDot(code))

\* C14: a code that lacks one of the markers " - ", "." and "(" raises no
\* error and gives no name: every name of the player list is the name of a
\* code that has all three.
C14_MarkerlessContributesNothing ==
  ret.op = "get_player_list" =>
    /\ (ret.kind = "raise" /\ ret.exc = "IndexError")
         => ~LacksMarker(ListFrame[ret.at].code)
    /\ ret.kind = "return" =>
         \A k \in 1..Len(ret.val) :
           \E i \in 1..Len(ListFrame) :
             LET code == ListFrame[i].code
             IN /\ code # <<>>
                /\ ~LacksMarker(code)
                /\ Find(LeftOf(code), <<".">>) > 0
                /\ NameOf(code) = ret.val[k]

C14_Witness ==
  /\ ListReturned
  /\ \E i \in 1..Len(ListFrame) : ListFrame[i].code = CodeNoDot
  /\ \E i \in 1..Len(ListFrame) : ListFrame[i].code = CodeExample
  /\ ret.val = <<JohnSmith>>

\* C15: the decomposition of a code never raises, also when "." or "("
\* stands only right of the first " - ".
C15_DecompositionTotal ==
  ret.op \in {"get_player_list", "create_involvement_line_chart"} =>
    ~(ret.kind = "raise" /\ ret.exc = "IndexError")

----------------------------------------------------------------------------
(* The claims about the events of a player and the involvement chart *)

\* the code holds the name with one space before and one space after it
NamedIn(code, name) ==
  code # <<>> /\ Find(code, <<" ">> \o name \o <<" ">>) > 0

\* C17: get_player_events(name) returns exactly the rows of the table
\* whose code holds the literal text of the name between two spaces; a row
\* without a code is never returned.
C17_LiteralNameBetweenSpaces ==
  (ret.op = "get_player_events" /\ ret.kind = "return") =>
    ret.val = SelectSeq(df.rows, LAMBDA row : NamedIn(row.code, ret.arg))

\* the last call drew the chart of a player who has events
Charted ==
  /\ ret.op = "create_involvement_line_chart"
  /\ ret.kind = "return"
  /\ Len(ret.val.player) > 0

\* the rows of the player of the last call (those get_player_events gives)
RowsOfPlayer == PlayerEvents(df, ret.arg).val

\* the end of the charted time in tenths: the largest start_time of the
\* table, at least the length of a match
ChartEnd == Max2(MaxStart(df.rows), 10 * MatchSeconds)

\* the number of rows of frame whose start_time lies in window i, the
\* windows numbered from 0
InWindow(frame, i) ==
  Cardinality({k \in 1..Len(frame) :
                 /\ "start_time" \in DOMAIN frame[k]
                 /\ 10 * WindowSeconds * i <= frame[k].start_time
                 /\ frame[k].start_time < 10 * WindowSeconds * (i + 1)})

\* C18: the counts are those of the consecutive windows of 300 seconds
\* that start at 0 and cover [0, max(largest start_time, 5400)): as many
\* windows as it takes to reach that end and no more, the i-th count the
\* number of the player's events with 300*i <= start_time < 300*(i+1).
C18_WindowsCoverChartEnd ==
  Charted =>
    LET n == Len(ret.val.player)
    IN /\ 10 * WindowSeconds * n >= ChartEnd
       /\ 10 * WindowSeconds * (n - 1) < ChartEnd
       /\ \A i \in 0..(n - 1) :
            ret.val.player[i + 1] = InWindow(RowsOfPlayer, i)

\* the rows of the team of the player's first event
RowsOfTeam ==
  SelectSeq(df.rows, LAMBDA row : /\ row.label_team # <<>>
                                  /\ row.label_team = RowsOfPlayer[1].label_team)

\* the names the codes of the team decompose to
NamesOfTeam ==
  {NameOf(RowsOfTeam[k].code) :
     k \in {j \in 1..Len(RowsOfTeam) :
              /\ RowsOfTeam[j].code # <<>>
              /\ ~LacksMarker(RowsOfTeam[j].code)
              /\ Find(LeftOf(RowsOfTeam[j].code), <<".">>) > 0}}
  \ {<<>>, NoneText}

\* C19: drawing the chart never faults on the names of the team, and the
\* team's value of each window is the number of the team's events in the
\* window divided by the number of distinct names on the team, 0 in every
\* window when the team has no name.
C19_TeamPerCapita ==
  ret.op = "create_involvement_line_chart" =>
    /\ ~(ret.kind = "raise" /\ ret.exc = "IndexError")
    /\ Charted =>
         \A i \in 0..(Len(ret.val.team) - 1) :
           ret.val.team[i + 1] =
             IF NamesOfTeam # {}
               THEN Quotient(InWindow(RowsOfTeam, i), Cardinality(NamesOfTeam))
               ELSE Quotient(0, 1)

----------------------------------------------------------------------------
(* The claims about the fields and the labels of an event *)

\* self.events holds the events of the first instances of the container
\* loaded: instance i is the source of event i
SourceOf(i) == root.instances[i]

EventsFromRoot == HasContainer(root) /\ Len(events) <= Len(root.instances)

\* the label child has a group child and a text child
Complete(label) == "group" \in DOMAIN label /\ "text" \in DOMAIN label

\* no label child after the k-th has both children and the group of the
\* k-th
LastOfGroup(ls, k) ==
  \A j \in (k + 1)..Len(ls) : ~(Complete(ls[j]) /\ ls[j].group = ls[k].group)

\* C21: the labels of an event hold, under its group, the text of every
\* label child that has a group and a text (of the last one, where a group
\* is given more than once), and nothing for a label child that lacks
\* either; a label child passed over removes no other label, and the
\* labels raise no error.
C21_LabelsOfCompleteChildren ==
  (ret.op = "extract_events" /\ EventsFromRoot) =>
    /\ ret.kind = "raise" => ret.exc \in {"ValueError", "TypeError"}
                             /\ ~WellFormed(root)
    /\ \A i \in 1..Len(events) :
         LET ls == SourceOf(i).labels
             labels == events[i].labels
         IN /\ DOMAIN labels =
                 {ls[k].group : k \in {j \in 1..Len(ls) : Complete(ls[j])}}
            /\ \A k \in 1..Len(ls) :
                 (Complete(ls[k]) /\ LastOfGroup(ls, k))
                   => labels[ls[k].group] = ls[k].text

\* C21 witness: an event of an instance whose first label is followed by a
\* label without text and a label without group.
C21_Witness ==
  /\ ret.op = "extract_events" /\ ret.kind = "return" /\ EventsFromRoot
  /\ \E i \in 1..Len(events) :
       /\ Len(SourceOf(i).labels) >= 3
       /\ Complete(SourceOf(i).labels[1])
       /\ ~Complete(SourceOf(i).labels[2])
       /\ ~Complete(SourceOf(i).labels[3])
       /\ events[i].labels.Half = Half1
       /\ "Action" \notin DOMAIN events[i].labels

\* C22: where an instance has several label children of one group, the
\* labels hold for the group the text of the last of them.
C22_LastSeenWins ==
  (ret.op = "extract_events" /\ EventsFromRoot) =>
    \A i \in 1..Len(events) :
      LET ls == SourceOf(i).labels
      IN \A k \in 1..Len(ls) : \A j \in 1..Len(ls) :
           (k < j /\ Complete(ls[k]) /\ Complete(ls[j])
              /\ ls[k].group = ls[j].group /\ LastOfGroup(ls, j))
             => /\ events[i].labels[ls[j].group] = ls[j].text
                /\ Cardinality({g \in DOMAIN events[i].labels :
                                  g = ls[j].group}) = 1

\* C22 witness: an event of the instance that gives the team "A" and then
\* the team "B".
C22_Witness ==
  /\ ret.op = "extract_events" /\ ret.kind = "return" /\ EventsFromRoot
  /\ \E i \in 1..Len(events) :
       /\ \E k \in 1..Len(SourceOf(i).labels) :
            SourceOf(i).labels[k] = Label("Team", TeamA)
       /\ \E k \in 1..Len(SourceOf(i).labels) :
            SourceOf(i).labels[k] = Label("Team", TeamB)
       /\ events[i].labels.Team = TeamB

\* the field of an event that a child of the instance gives
FieldOf(child) ==
  CASE child = "ID" -> "id" [] child = "start" -> "start_time"
    [] child = "end" -> "end_time" [] child = "code" -> "code"

\* C23: an event has the field id, start_time, end_time or code exactly
\* when its instance has the child ID, start, end or code: no field stands
\* in for a child that is not there, and the labels are always there.
C23_FieldsOfPresentChildren ==
  (ret.op = "extract_events" /\ EventsFromRoot) =>
    \A i \in 1..Len(events) :
      /\ \A child \in {"ID", "start", "end", "code"} :
           FieldOf(child) \in DOMAIN events[i]
             <=> child \in DOMAIN SourceOf(i).children
      /\ "labels" \in DOMAIN events[i]

\* C23 witness: events of an instance with no child and of an instance
\* with the four children.
C23_Witness ==
  /\ ret.op = "extract_events" /\ ret.kind = "return" /\ EventsFromRoot
  /\ \E i \in 1..Len(events) :
       SourceOf(i).children = EmptyDict /\ DOMAIN events[i] = {"labels"}
  /\ \E i \in 1..Len(events) :
       DOMAIN events[i] = {"id", "start_time", "end_time", "code", "labels"}

----------------------------------------------------------------------------
(* The claim about the events after a reload *)

\* the events of the document loaded: those of the instances of its
\* container, none when it has no container or nothing is loaded
EventsOfRoot ==
  IF HasContainer(root)
    THEN [i \in 1..Len(root.instances) |-> ParseInstance(root.instances[i])]
    ELSE <<>>

\* C24: however parse_xml and extract_events were called before and
\* whatever the file was, once extract_events has returned self.events are
\* the events of the document loaded now: none when it has no container or
\* no instances.
C24_EventsOfLoadedDocument ==
  (ret.op = "extract_events" /\ ret.kind \in {"return", "return_none"})
    => events = EventsOfRoot

----------------------------------------------------------------------------
(* The claims that tie the names, the events and the counts together *)

\* the code decomposes to the name
DecomposesTo(code, name) ==
  /\ code # <<>>
  /\ ~LacksMarker(code)
  /\ Find(LeftOf(code), <<".">>) > 0
  /\ NameOf(code) = name

\* C25: get_player_events(n) includes every row of the table whose code
\* decomposes to the name n, so that a player of the player list has at
\* least one event.
C25_LookupFindsDecomposed ==
  (ret.op = "get_player_events" /\ ret.kind = "return") =>
    \A i \in 1..Len(df.rows) :
      DecomposesTo(df.rows[i].code, ret.arg)
        => \E k \in 1..Len(ret.val) : ret.val[k] = df.rows[i]

RECURSIVE SumOf(_)
SumOf(counts) ==
  IF counts = <<>> THEN 0 ELSE Head(counts) + SumOf(Tail(counts))

\* C26: every event of the player with a start_time of at least 0 is in
\* exactly one window: the counts of the windows add up to the number of
\* these events, also when the largest start_time of the table is a
\* multiple of 300 seconds at or above 5400.
C26_EveryEventCounted ==
  Charted =>
    SumOf(ret.val.player) =
      Cardinality({k \in 1..Len(RowsOfPlayer) :
                     /\ "start_time" \in DOMAIN RowsOfPlayer[k]
                     /\ RowsOfPlayer[k].start_time >= 0})

====
